---- MODULE Spec2Model ----
(***************************************************************************)
(* A model of src/src/jvm.cpp: the Jvm singleton facade over an embedded   *)
(* Java runtime, the JNI::Env scoped attachment guard, and Jvm::check, the *)
(* translation of pending Java exceptions.                                 *)
(*                                                                         *)
(* Caller-owned threads call into the facade.  Jvm::create and Jvm::get    *)
(* read and write the shared static Jvm::instance and are modelled one     *)
(* shared access per step, so that their interleavings are explored.  What *)
(* a facade operation does after its first Jvm::get() touches only the     *)
(* calling thread's JNI state and is one step.  The native interface is    *)
(* the environment: whatever a native call may answer is chosen with \E.   *)
(*                                                                         *)
(* The value types of the facade, Jvm::Class and the MethodFinder and      *)
(* MethodSignature builders, are pure: they are operators, applied by the  *)
(* actions of two specifications of their own, SpecClass and SpecFinder.   *)
(***************************************************************************)
EXTENDS Integers, Sequences, FiniteSets, TLC

\* ------------------------------------------------------------------ bounds
NumThreads == 2
MaxCalls == 2
MaxDepth == 2
MaxArrays == 4
MaxParameters == 2
MaxSignatures == 2

Threads == 1..NumThreads

\* ------------------------------------------------------- values of jni.h
NULL == "NULL"
JNI_OK == "JNI_OK"
JNI_ERR == "JNI_ERR"
JNI_EDETACHED == "JNI_EDETACHED"
JNI_EVERSION == "JNI_EVERSION"
JNI_ENOMEM == "JNI_ENOMEM"
JNI_EEXIST == "JNI_EEXIST"
JNI_EINVAL == "JNI_EINVAL"

\* The JavaVM* and JNIEnv* a successful native call hands out, and the
\* reference ExceptionOccurred returns while an exception is pending.
JavaVMHandle == "JavaVM"
JNIEnvHandle == "JNIEnv"
ThrowableRef == "throwable"

\* JNI::Version values: one the runtime supports, one it does not.
Versions == {"supported", "unsupported"}

\* The result categories of the template specializations.
Categories == {"void", "jobject", "bool", "char", "short", "int", "long", "float", "double"}

VARIABLES
  instance,   \* Jvm::instance: NullJvm or the Jvm object [jvm, exceptions]; its version is
              \* read only as the argument of GetEnv, which a runtime created with it accepts
  vmCreated,  \* the native runtime: whether a Java VM exists in the process
  atexits,    \* how many times atexit(&deleter) has registered the finalizer
  creations,  \* how many times JNI_CreateJavaVM has returned JNI_OK
  successes,  \* how many create() calls have returned an instance
  halted,     \* "no", or how the process ended: "fatal" (glog CHECK / LOG(FATAL)), "crash" (null dereference)
  pc,         \* per thread: where it is inside create()/get(), or "idle"
  frame,      \* per thread: what it called, and create()'s arguments and locals
  attached,   \* per thread: whether the runtime has the thread attached
  pending,    \* per thread: whether its JNIEnv has a pending exception
  calls,      \* how many calls into the facade have begun
  started,    \* how many threads have called into the facade
  raced,      \* whether a call has begun while no instance was stored and another thread was inside a call
  last,       \* what the step just taken gave back to the caller of a call it completed (NoLast: it completed none)
  clazz,      \* a Jvm::Class value a caller derives array descriptors from
  element,    \* the descriptor clazz was derived from
  arrays,     \* how many times arrayOf() has been applied to get clazz from element
  fragment,   \* what signature() of clazz gave in the step just taken (NoString: it was not called)
  finder,     \* a Jvm::MethodFinder a caller accumulates parameters in
  added,      \* the descriptors passed to finder's parameter() so far, in call order
  produced,   \* the MethodSignatures finder's returns() has produced, each with added as it was then
  lookup      \* what findMethod passed to the runtime in the step just taken (NoLookup: it was not called)

facade == <<instance, vmCreated, atexits, creations, successes, halted, pc, frame, attached, pending, calls, started, raced, last>>

descriptors == <<clazz, element, arrays, fragment>>

builders == <<finder, added, produced, lookup>>

vars == <<instance, vmCreated, atexits, creations, successes, halted, pc, frame, attached, pending,
          calls, started, raced, last, clazz, element, arrays, fragment, finder, added, produced, lookup>>

\* Jvm::instance while no Jvm object is stored: the null Jvm*.
NullJvm == [null |-> TRUE]

NoFrame == [entry |-> "none", lazy |-> FALSE, error |-> "none", result |-> "none", jvm |-> NULL]

NoLast == [thread |-> 0, op |-> "none", cat |-> "-", arg |-> "-", depth |-> 0,
           status |-> "none", ret |-> "none", error |-> "none",
           threw |-> FALSE, found |-> TRUE, captured |-> NULL, raisedPending |-> FALSE,
           exceptions |-> FALSE, wasAttached |-> FALSE, wasPending |-> FALSE,
           attachedAfter |-> FALSE, pendingAfter |-> FALSE,
           trace |-> <<>>, guards |-> <<>>,
           lazy |-> FALSE, existed |-> FALSE, result |-> "none"]

\* ------------------------------------------------------ type descriptors
\* Jvm::Class::Class(name, native)
Class(name, native) == [name |-> name, native |-> native]

\* Jvm::Class(name), as the constants below are constructed: native takes the
\* default the class declaration gives it, a primitive ("native") type.
NativeClass(name) == Class(name, TRUE)

\* Jvm::Class::named(name): NOT a native type.
named(name) == Class(name, FALSE)

Class_VOID == NativeClass("V")
Class_BOOLEAN == NativeClass("Z")
Class_BYTE == NativeClass("B")
Class_CHAR == NativeClass("C")
Class_SHORT == NativeClass("S")
Class_INT == NativeClass("I")
Class_LONG == NativeClass("J")
Class_FLAOT == NativeClass("F")
Class_DOUBLE == NativeClass("D")
Class_STRING == named("java/lang/String")

\* Jvm::Class::arrayOf():  return Jvm::Class("[" + name, native)
arrayOf(c) == Class("[" \o c.name, c.native)

\* Jvm::Class::signature():  return native ? name : "L" + name + ";"
signature(c) == IF c.native THEN c.name ELSE "L" \o c.name \o ";"

\* The descriptors a caller starts from: the constants, and named classes.
ClassNames == {"java/lang/Object", "java/util/List"}
Classes ==
  {Class_VOID, Class_BOOLEAN, Class_BYTE, Class_CHAR, Class_SHORT, Class_INT, Class_LONG,
   Class_FLAOT, Class_DOUBLE, Class_STRING} \cup {named(n) : n \in ClassNames}

\* No string: signature() gives at least one character.
NoString == ""

\* ---------------------------------------------------- finders and signatures
\* Jvm::MethodSignature::MethodSignature(clazz, name, returnType, parameters):
\* each member is initialized with a copy of its argument.
MethodSignature(c, name, returnType, parameters) ==
  [clazz |-> c, name |-> name, returnType |-> returnType, parameters |-> parameters]

\* Jvm::MethodFinder::MethodFinder(clazz, name): parameters()
MethodFinder(c, name) == [clazz |-> c, name |-> name, parameters |-> <<>>]

\* Jvm::MethodFinder::parameter  that puts the descriptor in front.
parameterPrepends(f, type) == [f EXCEPT !.parameters = <<type>> \o @]

\* Jvm::MethodFinder::parameter(type):  parameters.push_back(type)
parameter(f, type) == [f EXCEPT !.parameters = Append(@, type)]

\* Jvm::MethodFinder::returns(returnType) const
returns(f, returnType) == MethodSignature(f.clazz, f.name, returnType, f.parameters)

\* foreach (const Jvm::Class& type, argTypes) signature << type.signature();
RECURSIVE Fragments(_)
Fragments(argTypes) ==
  IF argTypes = <<>> THEN ""
  ELSE signature(Head(argTypes)) \o Fragments(Tail(argTypes))

\* The signature string with the return type's fragment written before the
\* closing parenthesis.
signature_strReturnInside(argTypes, returnType) ==
  "(" \o Fragments(argTypes) \o signature(returnType) \o ")"

\* signature.str() in the private Jvm::findMethod:
\*   signature << "("; ...; signature << ")" << returnType.signature();
signature_str(argTypes, returnType) ==
  "(" \o Fragments(argTypes) \o ")" \o signature(returnType)

\* A finder no caller has constructed, and no lookup.
NoFinder == MethodFinder(Class_VOID, "")
NoLookup == [entry |-> "none", name |-> "", isStatic |-> FALSE, argTypes |-> <<>>,
             returnType |-> Class_VOID, string |-> NoString]

InitFacade ==
  /\ instance = NullJvm
  /\ vmCreated = FALSE
  /\ atexits = 0
  /\ creations = 0
  /\ successes = 0
  /\ halted = "no"
  /\ pc = [t \in Threads |-> "idle"]
  /\ frame = [t \in Threads |-> NoFrame]
  /\ attached = [t \in Threads |-> FALSE]
  /\ pending = [t \in Threads |-> FALSE]
  /\ calls = 0
  /\ started = 0
  /\ raced = FALSE
  /\ last = NoLast

\* No caller works with descriptors or builders.
NoDescriptors == clazz = Class_VOID /\ element = Class_VOID /\ arrays = 0 /\ fragment = NoString

NoBuilders == finder = NoFinder /\ added = <<>> /\ produced = <<>> /\ lookup = NoLookup

Init == InitFacade /\ NoDescriptors /\ NoBuilders


\* ------------------------------------------- the calling thread's JNI state
\* What one facade operation works on: the thread's attachment and
\* pending-exception state, how the operation is going ("running", "raised"
\* while a thrown Throwable unwinds, "fatal", "crash"), the native calls it
\* has issued in order, and the guards it has constructed.
Ctx(att, pend) ==
  [attached |-> att, pending |-> pend, status |-> "running", trace |-> <<>>, guards |-> <<>>,
   threw |-> FALSE, found |-> TRUE, captured |-> NULL, raisedPending |-> FALSE, ret |-> "none"]

\* What distinguishes the specializations for a result category T: nothing
\* comes back (void), a local reference (jobject), or a primitive value.
Kind(T) == IF T \in {"void", "jobject"} THEN T ELSE "primitive"

\* A native call in a trace: its name and, for the typed families
\* (Call<T>MethodV, CallStatic<T>MethodV, GetStatic<T>Field), the kind of T.
Fn(name) == [fn |-> name, cat |-> "-"]
FnT(name, T) == [fn |-> name, cat |-> Kind(T)]

Issue(c, f) == [c EXCEPT !.trace = Append(@, f)]

\* Dereferencing a null JavaVM* or JNIEnv* ends the process.
Crash(c) == [c EXCEPT !.status = "crash"]

\* JavaVM::GetEnv: JNI_OK on an attached thread, JNI_EDETACHED otherwise.
GetEnv(c) == IF c.attached THEN JNI_OK ELSE JNI_EDETACHED

\* JNI::Env::Env with  detach = true  moved out of the test of GetEnv's result.
EnvCtorAlwaysOwns(c, jvm, daemon, attachOk) ==
  IF c.status # "running" THEN c
  ELSE IF jvm = NULL THEN Crash(c)
  ELSE LET result == GetEnv(c)
           c1 == Issue(c, Fn("GetEnv"))
           c2 == IF result = JNI_EDETACHED
                 THEN [Issue(c1, Fn(IF daemon THEN "AttachCurrentThreadAsDaemon"
                                              ELSE "AttachCurrentThread"))
                         EXCEPT !.attached = attachOk]
                 ELSE c1
       IN [c2 EXCEPT !.guards = Append(@, [was |-> c.attached,
                                           attach |-> (result = JNI_EDETACHED),
                                           detach |-> TRUE,
                                           env |-> IF c2.attached THEN JNIEnvHandle ELSE NULL,
                                           detached |-> 0])]

\* JNI::Env::Env(daemon), after its Jvm::get(): jvm is Jvm::get()->jvm and
\* attachOk is whether the native attach call, if one is issued, succeeds.
EnvCtor(c, jvm, daemon, attachOk) ==
  IF c.status # "running" THEN c
  ELSE IF jvm = NULL THEN Crash(c)
  ELSE LET result == GetEnv(c)
           c1 == Issue(c, Fn("GetEnv"))
       IN IF result = JNI_EDETACHED
          THEN LET c2 == Issue(c1, Fn(IF daemon THEN "AttachCurrentThreadAsDaemon"
                                                ELSE "AttachCurrentThread"))
               IN [c2 EXCEPT !.attached = attachOk,
                             !.guards = Append(@, [was |-> c.attached, attach |-> TRUE,
                                                   detach |-> TRUE,
                                                   env |-> IF attachOk THEN JNIEnvHandle ELSE NULL,
                                                   detached |-> 0])]
          ELSE [c1 EXCEPT !.guards = Append(@, [was |-> c.attached, attach |-> FALSE,
                                                detach |-> FALSE, env |-> JNIEnvHandle,
                                                detached |-> 0])]

\* A guard released by a call at the end of the operation instead of by its
\* destructor: a thrown Throwable passes it by.
EnvDtorNotOnThrow(c, g, jvm) ==
  IF c.status # "running" \/ g > Len(c.guards) THEN c
  ELSE IF ~c.guards[g].detach THEN c
  ELSE IF jvm = NULL THEN Crash(c)
  ELSE [Issue(c, Fn("DetachCurrentThread")) EXCEPT
          !.attached = FALSE, !.pending = FALSE,
          !.guards[g].detached = @ + 1]

\* JNI::Env::~Env() of guard g: runs when its scope is left by a return or by
\* a thrown Throwable, not when the process has ended.  Detaching discards the
\* thread's JNIEnv, and with it any pending exception.
EnvDtor(c, g, jvm) ==
  IF c.status \notin {"running", "raised"} \/ g > Len(c.guards) THEN c
  ELSE IF ~c.guards[g].detach THEN c
  ELSE IF jvm = NULL THEN Crash(c)
  ELSE [Issue(c, Fn("DetachCurrentThread")) EXCEPT
          !.attached = FALSE, !.pending = FALSE,
          !.guards[g].detached = @ + 1]

\* env->f(...) through guard g; throws is whether the call leaves a pending
\* exception.
NativeCall(c, g, f, throws) ==
  IF c.status # "running" THEN c
  ELSE IF c.guards[g].env = NULL THEN Crash(c)
  ELSE [Issue(c, f) EXCEPT !.pending = @ \/ throws]

\* glog's CHECK_NOTNULL(x): isNull is whether x is null.
CHECK_NOTNULL(c, isNull) ==
  IF c.status # "running" THEN c
  ELSE IF isNull THEN [c EXCEPT !.status = "fatal"] ELSE c

\* JNIEnv::ExceptionOccurred: the pending exception object, NULL when none.
ExceptionOccurred(c) ==
  [Issue(c, Fn("ExceptionOccurred")) EXCEPT
     !.captured = IF c.pending THEN ThrowableRef ELSE NULL]

\* JNIEnv::ExceptionClear.
ExceptionClear(c) == [Issue(c, Fn("ExceptionClear")) EXCEPT !.pending = FALSE]

\* throw throwable: the Throwable leaves with the reference captured so far.
Throw(c) == [c EXCEPT !.status = "raised", !.raisedPending = c.pending]

\* Jvm::check that clears the pending exception before it asks for it.
checkClearsFirst(c, g, exceptions) ==
  IF c.status # "running" THEN c
  ELSE IF c.guards[g].env = NULL THEN Crash(c)
  ELSE LET c1 == Issue(c, Fn("ExceptionCheck"))
       IN IF ~c1.pending THEN c1
          ELSE IF ~exceptions
               THEN [Issue(c1, Fn("ExceptionDescribe")) EXCEPT !.status = "fatal"]
               ELSE Throw(ExceptionOccurred(ExceptionClear(c1)))

\* Jvm::check without its  throw throwable.
checkNeverThrows(c, g, exceptions) ==
  IF c.status # "running" THEN c
  ELSE IF c.guards[g].env = NULL THEN Crash(c)
  ELSE LET c1 == Issue(c, Fn("ExceptionCheck"))
       IN IF ~c1.pending THEN c1
          ELSE IF ~exceptions
               THEN [Issue(c1, Fn("ExceptionDescribe")) EXCEPT !.status = "fatal"]
               ELSE ExceptionClear(ExceptionOccurred(c1))

\* Jvm::check(env) with env the JNIEnv* of guard g.
check(c, g, exceptions) ==
  IF c.status # "running" THEN c
  ELSE IF c.guards[g].env = NULL THEN Crash(c)
  ELSE LET c1 == Issue(c, Fn("ExceptionCheck"))
       IN IF ~c1.pending THEN c1
          ELSE IF ~exceptions
               THEN [Issue(c1, Fn("ExceptionDescribe")) EXCEPT !.status = "fatal"]
               ELSE Throw(ExceptionClear(ExceptionOccurred(c1)))

\* The index the next guard constructed in c will have.
NextGuard(c) == Len(c.guards) + 1

\* return v: the operation's value, when control is still with it.
Return(c, v) == IF c.status = "running" THEN [c EXCEPT !.ret = v] ELSE c


\* ------------------------------------------------------ facade operations
\* Each takes the thread's state c, vm = Jvm::get()->jvm, the facade's
\* exceptions flag, and n, what the runtime answers during the operation:
\*   n.attachOk    an attach call succeeds
\*   n.classFound  FindClass finds the class
\*   n.found       the member or field lookup finds it
\*   n.throws      the invoked Java code, or an allocation, throws

\* A lookup through guard g: a null answer comes with a pending exception.
Lookup(c, g, f, isFound) ==
  LET c1 == NativeCall(c, g, f, ~isFound)
  IN IF c1.status = "running" /\ c.status = "running"
     THEN [c1 EXCEPT !.found = @ /\ isFound] ELSE c1

\* The native call an operation is named for: threw records whether an
\* exception is pending when it comes back.
MainCall(c, g, f, throws) ==
  LET c1 == NativeCall(c, g, f, throws)
  IN IF c1.status = "running" /\ c.status = "running"
     THEN [c1 EXCEPT !.threw = c1.pending] ELSE c1

findClass(c, vm, n) ==
  LET g == NextGuard(c)
      c1 == EnvCtor(c, vm, FALSE, n.attachOk)
      c2 == Lookup(c1, g, Fn("FindClass"), n.classFound)
      c3 == CHECK_NOTNULL(c2, ~n.classFound)
  IN EnvDtor(Return(c3, "jclass"), g, vm)

\* The private Jvm::findMethod(clazz, name, returnType, argTypes, isStatic).
findMethodID(c, vm, n, isStatic) ==
  LET g == NextGuard(c)
      c1 == EnvCtor(c, vm, FALSE, n.attachOk)
      c2 == findClass(c1, vm, n)
      c3 == Lookup(c2, g, Fn(IF isStatic THEN "GetStaticMethodID" ELSE "GetMethodID"), n.found)
      c4 == CHECK_NOTNULL(c3, ~n.found)
  IN EnvDtor(Return(c4, "jmethodID"), g, vm)

findConstructor(c, vm, n) == Return(findMethodID(c, vm, n, FALSE), "jmethodID")

findMethod(c, vm, n) == Return(findMethodID(c, vm, n, FALSE), "jmethodID")

findStaticMethod(c, vm, n) == Return(findMethodID(c, vm, n, TRUE), "jmethodID")

findStaticField(c, vm, exceptions, n) ==
  LET g == NextGuard(c)
      c1 == EnvCtor(c, vm, FALSE, n.attachOk)
      c2 == findClass(c1, vm, n)
      c3 == Lookup(c2, g, Fn("GetStaticFieldID"), n.found)
      c4 == check(c3, g, exceptions)
  IN EnvDtor(Return(c4, IF n.found THEN "jfieldID" ELSE NULL), g, vm)

string(c, vm, n) ==
  LET g == NextGuard(c)
      c1 == EnvCtor(c, vm, FALSE, n.attachOk)
      c2 == MainCall(c1, g, Fn("NewStringUTF"), n.throws)
  IN EnvDtor(Return(c2, IF n.throws THEN NULL ELSE "jstring"), g, vm)

newGlobalRef(c, vm, n) ==
  LET g == NextGuard(c)
      c1 == EnvCtor(c, vm, FALSE, n.attachOk)
      c2 == MainCall(c1, g, Fn("NewGlobalRef"), FALSE)
  IN EnvDtor(Return(c2, "global"), g, vm)

deleteGlobalRef(c, vm, n, object) ==
  LET g == NextGuard(c)
      c1 == EnvCtor(c, vm, FALSE, n.attachOk)
      c2 == IF object # NULL THEN MainCall(c1, g, Fn("DeleteGlobalRef"), FALSE) ELSE c1
  IN EnvDtor(Return(c2, "void"), g, vm)

\* Jvm::invoke(const Constructor& ctor, ...).
invoke(c, vm, exceptions, n) ==
  LET g == NextGuard(c)
      c1 == EnvCtor(c, vm, FALSE, n.attachOk)
      c2 == findClass(c1, vm, n)
      c3 == MainCall(c2, g, Fn("NewObjectV"), n.throws)
      c4 == check(c3, g, exceptions)
  IN EnvDtor(Return(c4, "jobject"), g, vm)

\* What a specialization for category T gives back: nothing for void, the
\* native call's result otherwise.
Decoded(T) == Kind(T)

getStaticField(c, vm, exceptions, n, T) ==
  LET g == NextGuard(c)
      c1 == EnvCtor(c, vm, FALSE, n.attachOk)
      c2 == findClass(c1, vm, n)
      c3 == MainCall(c2, g, FnT("GetStaticField", T), FALSE)
      c4 == check(c3, g, exceptions)
  IN EnvDtor(Return(c4, Decoded(T)), g, vm)

invokeV(c, vm, exceptions, n, T) ==
  LET g == NextGuard(c)
      c1 == EnvCtor(c, vm, FALSE, n.attachOk)
      c2 == MainCall(c1, g, FnT("CallMethodV", T), n.throws)
      c3 == check(c2, g, exceptions)
  IN EnvDtor(Return(c3, Decoded(T)), g, vm)

invokeStaticV(c, vm, exceptions, n, T) ==
  LET g == NextGuard(c)
      c1 == EnvCtor(c, vm, FALSE, n.attachOk)
      c2 == findClass(c1, vm, n)
      c3 == MainCall(c2, g, FnT("CallStaticMethodV", T), n.throws)
      c4 == check(c3, g, exceptions)
  IN EnvDtor(Return(c4, Decoded(T)), g, vm)

\* The calls a thread can make once it holds the facade: op.name, and for the
\* specializations op.cat, for deleteGlobalRef op.arg.  "Env" is a caller
\* that only holds guards.
Plain == {"string", "newGlobalRef", "findClass", "findConstructor", "findMethod",
          "findStaticMethod", "findStaticField", "invoke", "Env"}
Ops ==
  [name : Plain, cat : {"-"}, arg : {"-"}]
    \cup [name : {"deleteGlobalRef"}, cat : {"-"}, arg : {NULL, "jobject"}]
    \cup [name : {"invokeV", "invokeStaticV"}, cat : Categories, arg : {"-"}]
    \cup [name : {"getStaticField"}, cat : Categories \ {"void"}, arg : {"-"}]

Dispatch(c, vm, exceptions, n, op) ==
  CASE op.name = "string" -> string(c, vm, n)
    [] op.name = "newGlobalRef" -> newGlobalRef(c, vm, n)
    [] op.name = "deleteGlobalRef" -> deleteGlobalRef(c, vm, n, op.arg)
    [] op.name = "findClass" -> findClass(c, vm, n)
    [] op.name = "findConstructor" -> findConstructor(c, vm, n)
    [] op.name = "findMethod" -> findMethod(c, vm, n)
    [] op.name = "findStaticMethod" -> findStaticMethod(c, vm, n)
    [] op.name = "findStaticField" -> findStaticField(c, vm, exceptions, n)
    [] op.name = "invoke" -> invoke(c, vm, exceptions, n)
    [] op.name = "getStaticField" -> getStaticField(c, vm, exceptions, n, op.cat)
    [] op.name = "invokeV" -> invokeV(c, vm, exceptions, n, op.cat)
    [] op.name = "invokeStaticV" -> invokeStaticV(c, vm, exceptions, n, op.cat)
    [] OTHER -> c

\* A caller that holds depth nested JNI::Env guards of its own around the
\* call: each scope constructs its guard, runs what it encloses, and destroys
\* the guard when it is left.
RECURSIVE Scoped(_, _, _, _, _, _, _)
Scoped(c, vm, exceptions, n, op, depth, daemon) ==
  IF depth = 0 THEN Dispatch(c, vm, exceptions, n, op)
  ELSE LET g == NextGuard(c)
           c1 == EnvCtor(c, vm, daemon, n.attachOk)
       IN EnvDtor(Scoped(c1, vm, exceptions, n, op, depth - 1, daemon), g, vm)


\* ------------------------------------------------- the native creation call
\* What JNI_CreateJavaVM may answer: a process holds at most one Java VM, and
\* a version the runtime does not support is refused.
JNI_CreateJavaVM(exists, version) ==
  IF exists THEN {JNI_EEXIST, JNI_ERR}
  ELSE {JNI_ERR, JNI_ENOMEM, JNI_EINVAL}
         \cup (IF version = "supported" THEN {JNI_OK} ELSE {JNI_EVERSION})

AlreadyCreated == "Java Virtual Machine already created"
FailedToCreate == "Failed to create JVM!"

\* ---------------------------------------------------------------- calls
Running == halted = "no"

\* The threads are interchangeable: they are numbered in the order of their
\* first call.
CanCall(t) == Running /\ pc[t] = "idle" /\ calls < MaxCalls /\ t <= started + 1

\* The contract of create(): no thread makes a call that may create the
\* runtime while another thread is inside a call.
NoRace(t) == instance # NullJvm \/ \A u \in Threads \ {t} : pc[u] = "idle"

\* Thread t may begin a call: always when callers is "any", only within the
\* contract of create() when callers is "kept".
MayCall(t, callers) == CanCall(t) /\ (callers = "kept" => NoRace(t))

Begins(t) ==
  /\ calls' = calls + 1
  /\ started' = IF t > started THEN t ELSE started
  /\ raced' = (raced \/ ~NoRace(t))

\* Thread t goes on inside its call, at pc p with frame f; nothing is given
\* back to a caller.
Continues(t, p, f) ==
  /\ pc' = [pc EXCEPT ![t] = p]
  /\ frame' = [frame EXCEPT ![t] = f]
  /\ last' = NoLast

\* Thread t's call is over: out is what its caller gets.
Completes(t, out) ==
  /\ pc' = [pc EXCEPT ![t] = "idle"]
  /\ frame' = [frame EXCEPT ![t] = NoFrame]
  /\ last' = out

\* ------------------------------------------------- the rest of an operation
Answers == [attachOk : BOOLEAN, classFound : BOOLEAN, found : BOOLEAN, throws : BOOLEAN]

\* The answers an operation can tell apart: it asks only for what it looks up
\* and for what it runs.
LooksUpClass == {"findClass", "findConstructor", "findMethod", "findStaticMethod",
                 "findStaticField", "invoke", "invokeStaticV", "getStaticField"}
LooksUpMember == {"findConstructor", "findMethod", "findStaticMethod", "findStaticField"}
MayThrow == {"string", "invoke", "invokeV", "invokeStaticV"}
AnswersFor(op) ==
  {n \in Answers : /\ op.name \notin LooksUpClass => n.classFound
                   /\ op.name \notin LooksUpMember => n.found
                   /\ op.name \notin MayThrow => ~n.throws}

\* A facade operation constructs its guards itself (depth 0 of the caller's
\* own); a caller that calls none holds 1..MaxDepth nested guards of its own,
\* daemon or not.
Shapes(op) == IF op.name = "Env" THEN (1..MaxDepth) \X BOOLEAN ELSE {<<0, FALSE>>}

\* Jvm::get()->jvm and ->exceptions: through a null Jvm* there is no JavaVM to
\* reach.
JvmOf(inst) == IF inst = NullJvm THEN NULL ELSE inst.jvm
ExceptionsOf(inst) == IF inst = NullJvm THEN FALSE ELSE inst.exceptions

Outcome(t, op, shape, c) ==
  [NoLast EXCEPT !.thread = t, !.op = op.name, !.cat = Kind(op.cat), !.arg = op.arg,
                 !.depth = shape[1],
                 !.status = IF c.status = "running" THEN "returned" ELSE c.status,
                 !.ret = c.ret, !.threw = c.threw, !.found = c.found,
                 !.captured = c.captured, !.raisedPending = c.raisedPending,
                 !.exceptions = ExceptionsOf(instance),
                 !.wasAttached = attached[t], !.wasPending = pending[t],
                 !.attachedAfter = c.attached, !.pendingAfter = c.pending,
                 !.trace = c.trace, !.guards = c.guards,
                 !.lazy = (pc[t] = "notnull")]

\* The guard constructor or operation, one of ops, after its first Jvm::get()
\* has returned the instance, to its return, its throw or the end of the
\* process.
Body(t, ops) ==
  \E op \in ops :
    \E shape \in Shapes(op), n \in AnswersFor(op) :
      /\ attached[t] => n.attachOk
      /\ LET c == Scoped(Ctx(attached[t], pending[t]), JvmOf(instance), ExceptionsOf(instance),
                         n, op, shape[1], shape[2])
         IN /\ attached' = [attached EXCEPT ![t] = c.attached]
            /\ pending' = [pending EXCEPT ![t] = c.pending]
            /\ halted' = IF c.status \in {"fatal", "crash"} THEN c.status ELSE "no"
            /\ Completes(t, Outcome(t, op, shape, c))

\* --------------------------------------------------------------- Jvm::get
\* Jvm::created():  return instance != NULL
created == instance # NullJvm

\* get() returns the instance: to the thread's caller, or into the guard
\* constructor or operation that called it, which goes on with it.
GetReturns(t, entry, lazy, error, ops) ==
  IF entry = "get"
  THEN /\ Completes(t, [NoLast EXCEPT !.thread = t, !.op = "get", !.status = "returned",
                                      !.ret = IF instance = NullJvm THEN NULL ELSE "instance",
                                      !.lazy = lazy, !.existed = ~lazy, !.error = error])
       /\ UNCHANGED <<halted, attached, pending>>
  ELSE Body(t, ops)

\* A caller calls Jvm::get() (entry "get"), or constructs a guard or calls a
\* facade operation (entry "op"), which begins with Jvm::get():
\*   if (instance == NULL) create();
\* with create()'s default arguments.
CallGet(t, entry, ops, callers) ==
  /\ MayCall(t, callers)
  /\ Begins(t)
  /\ IF instance = NullJvm
     THEN /\ Continues(t, "create", [NoFrame EXCEPT !.entry = entry, !.lazy = TRUE])
          /\ UNCHANGED <<halted, attached, pending>>
     ELSE GetReturns(t, entry, FALSE, "none", ops)
  /\ UNCHANGED <<instance, vmCreated, atexits, creations, successes>>
  /\ UNCHANGED <<descriptors, builders>>

\* get() that returns instance without CHECK_NOTNULL.
getNotNullUnchecked(t, ops) ==
  /\ Running /\ pc[t] = "notnull"
  /\ GetReturns(t, frame[t].entry, TRUE, frame[t].error, ops)
  /\ UNCHANGED <<instance, vmCreated, atexits, creations, successes, calls, started, raced>>
  /\ UNCHANGED <<descriptors, builders>>

\* return CHECK_NOTNULL(instance)  after the lazy create() has returned
getNotNull(t, ops) ==
  /\ Running /\ pc[t] = "notnull"
  /\ IF instance = NullJvm
     THEN /\ halted' = "fatal"
          /\ UNCHANGED <<pc, frame, attached, pending>>
          /\ last' = NoLast
     ELSE GetReturns(t, frame[t].entry, TRUE, frame[t].error, ops)
  /\ UNCHANGED <<instance, vmCreated, atexits, creations, successes, calls, started, raced>>
  /\ UNCHANGED <<descriptors, builders>>

\* ------------------------------------------------------------ Jvm::create
\* create() returns to its caller: to get() when get() called it, otherwise to
\* the thread's caller, with the error (or "none") it reports.  existed is
\* whether create() found an instance stored.
CreateReturns(t, lazy, error, existed, result) ==
  IF lazy
  THEN Continues(t, "notnull", [frame[t] EXCEPT !.error = error])
  ELSE Completes(t, [NoLast EXCEPT !.thread = t, !.op = "create",
                                   !.status = IF error = "none" THEN "returned" ELSE "error",
                                   !.error = error,
                                   !.ret = IF error = "none" THEN "instance" ELSE "none",
                                   !.existed = existed, !.result = result])

\* create() without its test of instance.
AlreadyExistsUnchecked(t, lazy, f) == Continues(t, "native", f)

\* if (instance != NULL) return Error("Java Virtual Machine already created")
AlreadyExists(t, lazy, f) ==
  IF instance # NullJvm
  THEN CreateReturns(t, lazy, AlreadyCreated, TRUE, "none")
  ELSE Continues(t, "native", f)

\* A caller calls Jvm::create(options, version, exceptions).  The arguments are
\* the caller's choice; each is chosen in the step of create() that first
\* reads it.
CallCreate(t, callers) ==
  /\ MayCall(t, callers)
  /\ Begins(t)
  /\ AlreadyExists(t, FALSE, [NoFrame EXCEPT !.entry = "create"])
  /\ UNCHANGED <<instance, vmCreated, atexits, creations, successes, halted, attached, pending>>
  /\ UNCHANGED <<descriptors, builders>>

\* The create() that get() calls.
createCheck(t) ==
  /\ Running /\ pc[t] = "create"
  /\ AlreadyExists(t, TRUE, frame[t])
  /\ UNCHANGED <<instance, vmCreated, atexits, creations, successes, halted, attached, pending,
                 calls, started, raced>>
  /\ UNCHANGED <<descriptors, builders>>

\* vmArgs.version = version; JNI_CreateJavaVM(&jvm, &env, &vmArgs) and the
\* test of its result.  On JNI_OK the runtime exists and the calling thread is
\* attached to it as its main thread; on any other result jvm stays NULL.
createNative(t) ==
  /\ Running /\ pc[t] = "native"
  /\ \E version \in Versions :
     \E result \in JNI_CreateJavaVM(vmCreated, version) :
       /\ vmCreated' = (vmCreated \/ result = JNI_OK)
       /\ creations' = IF result = JNI_OK THEN creations + 1 ELSE creations
       /\ attached' = IF result = JNI_OK THEN [attached EXCEPT ![t] = TRUE] ELSE attached
       /\ IF result = JNI_ERR
          THEN CreateReturns(t, frame[t].lazy, FailedToCreate, FALSE, result)
          ELSE Continues(t, "store",
                         [frame[t] EXCEPT !.result = result,
                                          !.jvm = IF result = JNI_OK THEN JavaVMHandle ELSE NULL])
  /\ UNCHANGED <<instance, atexits, successes, halted, pending, calls, started, raced>>
  /\ UNCHANGED <<descriptors, builders>>

\* instance = new Jvm(jvm, version, exceptions); atexit(&deleter); return instance
\* The store publishes the instance to the other threads; the registration of
\* the finalizer that follows it is read by no thread, so it is part of the
\* same step.
createStore(t) ==
  /\ Running /\ pc[t] = "store"
  /\ \E exceptions \in BOOLEAN :
       instance' = [jvm |-> frame[t].jvm, exceptions |-> exceptions]
  /\ atexits' = atexits + 1
  /\ successes' = successes + 1
  /\ CreateReturns(t, frame[t].lazy, "none", FALSE, frame[t].result)
  /\ UNCHANGED <<vmCreated, creations, halted, attached, pending, calls, started, raced>>
  /\ UNCHANGED <<descriptors, builders>>

\* The positions in trace tr of the native calls named f, and how many.
Positions(tr, f) == {i \in DOMAIN tr : tr[i].fn = f}
Count(tr, f) == Cardinality(Positions(tr, f))

\* ------------------------------------------------------------ process exit
\* Jvm::~Jvm():  if (jvm->DestroyJavaVM() != 0) LOG(FATAL) ...;  ok is whether
\* DestroyJavaVM answers 0.
JvmDtor(c, jvm, ok) ==
  IF c.status # "running" THEN c
  ELSE IF jvm = NULL THEN Crash(c)
  ELSE LET c1 == Issue(c, Fn("DestroyJavaVM"))
       IN IF ok THEN c1 ELSE [c1 EXCEPT !.status = "fatal"]

\* deleter():  delete Jvm::instance;  deleting a null pointer does nothing.
deleter(c, inst, ok) == IF inst = NullJvm THEN c ELSE JvmDtor(c, inst.jvm, ok)

\* exit() runs the n registered finalizers.  Jvm::instance is not reset by
\* deleter, so a second run deletes an object already deleted: the process
\* crashes there, or the destructor runs again on the same storage.
RECURSIVE AtExit(_, _, _, _, _)
AtExit(c, n, inst, ok, twice) ==
  IF n = 0 \/ c.status # "running" THEN c
  ELSE LET c1 == deleter(c, inst, ok)
       IN IF n > 1 /\ twice = "crash" /\ c1.status = "running"
          THEN Crash(c1)
          ELSE AtExit(c1, n - 1, inst, ok, twice)

\* The process exits (main returns, or exit() is called) while no thread is
\* inside a call into the facade.
Exit ==
  /\ Running /\ \A t \in Threads : pc[t] = "idle"
  /\ \E ok \in BOOLEAN, twice \in {"crash", "again"} :
       LET c == AtExit(Ctx(FALSE, FALSE), atexits, instance, ok, twice)
       IN /\ halted' = IF c.status = "running" THEN "exited" ELSE c.status
          /\ last' = [NoLast EXCEPT !.op = "exit", !.trace = c.trace,
                                    !.status = IF c.status = "running" THEN "exited" ELSE c.status]
          /\ vmCreated' = (vmCreated /\ ~(ok /\ Count(c.trace, "DestroyJavaVM") > 0))
  /\ UNCHANGED <<instance, atexits, creations, successes, pc, frame, attached, pending,
                 calls, started, raced>>
  /\ UNCHANGED <<descriptors, builders>>

\* ------------------------------------------------------- specifications
\* What a thread inside create() or get() does next; ops are the operations
\* the callers use.
Step(t, ops) ==
  \/ createCheck(t)
  \/ createNative(t)
  \/ createStore(t)
  \/ getNotNull(t, ops)

Call(t, ops, callers) ==
  \/ CallCreate(t, callers)
  \/ CallGet(t, "get", ops, callers)
  \/ CallGet(t, "op", ops, callers)

\* The callers keep the contract of create(); otherwise the threads call
\* concurrently, in any interleaving.
Next == (\E t \in Threads : Call(t, Ops, "kept") \/ Step(t, Ops)) \/ Exit

Spec == Init /\ [][Next]_vars

\* Callers that do not keep that contract: threads whose first calls into the
\* facade (create(), get(), the construction of a guard) run concurrently, in
\* any interleaving.
GuardOps == {op \in Ops : op.name = "Env"}

NextRace == (\E t \in Threads : Call(t, GuardOps, "any") \/ Step(t, GuardOps)) \/ Exit

SpecRace == Init /\ [][NextRace]_vars

\* ------------------------------------------------- array descriptors
\* A caller starts from one of Classes and derives array descriptors from it.
InitClass ==
  /\ InitFacade
  /\ clazz \in Classes /\ element = clazz /\ arrays = 0 /\ fragment = NoString
  /\ NoBuilders

\* clazz = clazz.arrayOf()
ClassArrayOf ==
  /\ arrays < MaxArrays
  /\ clazz' = arrayOf(clazz)
  /\ arrays' = arrays + 1
  /\ fragment' = NoString
  /\ UNCHANGED <<element, facade, builders>>

\* clazz.signature()
ClassSignature ==
  /\ fragment' = signature(clazz)
  /\ UNCHANGED <<clazz, element, arrays, facade, builders>>

NextClass == ClassArrayOf \/ ClassSignature

SpecClass == InitClass /\ [][NextClass]_vars

\* --------------------------------------------------- building signatures
\* The descriptors a caller passes to parameter() and to returns(), and the
\* method it looks for.
ParameterTypes == {Class_INT, Class_STRING, arrayOf(Class_INT)}
ReturnTypes == {Class_BOOLEAN, Class_VOID}
Owners == {Class_STRING}
MethodNames == {"equals"}

\* clazz.method(name): a finder without parameters.
InitFinder ==
  /\ InitFacade
  /\ NoDescriptors
  /\ finder \in {MethodFinder(c, n) : c \in Owners, n \in MethodNames}
  /\ added = <<>> /\ produced = <<>> /\ lookup = NoLookup

\* finder.parameter(type)
FinderParameter ==
  /\ Len(finder.parameters) < MaxParameters
  /\ \E type \in ParameterTypes :
       /\ finder' = parameter(finder, type)
       /\ added' = Append(added, type)
  /\ lookup' = NoLookup
  /\ UNCHANGED <<produced, facade, descriptors>>

\* finder.returns(returnType): the caller keeps the MethodSignature.
FinderReturns ==
  /\ Len(produced) < MaxSignatures
  /\ \E returnType \in ReturnTypes :
       produced' = Append(produced, [signature |-> returns(finder, returnType),
                                     returnType |-> returnType, added |-> added])
  /\ lookup' = NoLookup
  /\ UNCHANGED <<finder, added, facade, descriptors>>

\* Jvm::findMethod(signature) and Jvm::findStaticMethod(signature) hand the
\* signature's members to the private Jvm::findMethod, which passes name and
\* signature.str() to GetMethodID or GetStaticMethodID.
FinderFindMethod ==
  /\ \E i \in DOMAIN produced, isStatic \in BOOLEAN :
       LET sig == produced[i].signature
       IN lookup' = [entry |-> IF isStatic THEN "findStaticMethod" ELSE "findMethod",
                     name |-> sig.name, isStatic |-> isStatic,
                     argTypes |-> sig.parameters, returnType |-> sig.returnType,
                     string |-> signature_str(sig.parameters, sig.returnType)]
  /\ UNCHANGED <<finder, added, produced, facade, descriptors>>

NextFinder == FinderParameter \/ FinderReturns \/ FinderFindMethod

SpecFinder == InitFinder /\ [][NextFinder]_vars

\* ------------------------------------------------------------- properties
\* The native attach calls in trace tr.
Attaches(tr) == Count(tr, "AttachCurrentThread") + Count(tr, "AttachCurrentThreadAsDaemon")

\* Control came back to the caller of the operation: by a return or by the
\* raised Throwable.
CameBack == last.status \in {"returned", "raised"}

\* C1: with calls made one at a time, at most one create() call succeeds, and
\* every create() call made after a successful one returns the "already
\* created" error and leaves the stored singleton unchanged, whatever its
\* arguments.
C1_SingleCreation ==
  /\ [](successes <= 1)
  /\ [][(successes >= 1 /\ last'.op = "create")
          => (last'.error = AlreadyCreated /\ instance' = instance)]_vars

C1_Witness == successes = 1 /\ last.op = "create" /\ last.error = AlreadyCreated

\* C2: an invocation entry point whose native call leaves a pending exception
\* never returns to its caller: in translate mode it raises the error value,
\* in abort mode the process ends.
InvocationOps == {"invoke", "invokeV", "invokeStaticV", "getStaticField"}

C2_NoResultWithPendingException ==
  (last.op \in InvocationOps /\ last.threw)
    => /\ last.status # "returned"
       /\ last.exceptions => last.status = "raised"
       /\ ~last.exceptions => last.status = "fatal"

C2_Witness ==
  /\ last.op = "invokeStaticV" /\ last.cat = "primitive"
  /\ last.threw /\ last.exceptions /\ last.status = "raised"

\* C3: whenever a facade operation that calls into the runtime returns or
\* raises to its caller, the calling thread has no pending exception.
BoundaryOps == {"string", "newGlobalRef", "deleteGlobalRef", "findConstructor", "findMethod",
                "findStaticMethod", "findStaticField", "invoke", "invokeV", "invokeStaticV",
                "getStaticField"}

C3_NoPendingAfterCall == (last.op \in BoundaryOps /\ CameBack) => ~last.pendingAfter

\* C4: in translate mode, when check finds an exception pending, it captures
\* the reference to it, then clears the pending state exactly once, then
\* raises the error value with the captured reference; nothing is pending
\* when the error value leaves check and when it reaches the caller.
C4_CaptureClearRaise ==
  (last.exceptions /\ last.status = "raised")
    => /\ last.captured = ThrowableRef
       /\ Count(last.trace, "ExceptionOccurred") = 1
       /\ Count(last.trace, "ExceptionClear") = 1
       /\ \A i \in Positions(last.trace, "ExceptionOccurred") :
            \A j \in Positions(last.trace, "ExceptionClear") :
              /\ i < j
              /\ \E k \in Positions(last.trace, "ExceptionCheck") : k < i
       /\ ~last.raisedPending
       /\ ~last.pendingAfter

C4_Witness ==
  /\ last.op = "invokeV" /\ last.exceptions /\ last.status = "raised"
  /\ last.captured = ThrowableRef

\* C5: a guard constructed on an attached thread (attached by the creation of
\* the runtime or by an enclosing guard) issues no native attach call, is not
\* owning, and its destruction issues no native detach call, at any nesting
\* depth: the native attach calls of an operation are those of its guards
\* constructed on a detached thread.
C5_AttachmentIdempotence ==
  /\ \A g \in DOMAIN last.guards :
       last.guards[g].was
         => /\ ~last.guards[g].attach
            /\ ~last.guards[g].detach
            /\ last.guards[g].detached = 0
  /\ Attaches(last.trace) = Cardinality({g \in DOMAIN last.guards : ~last.guards[g].was})
  /\ (last.wasAttached /\ CameBack) => Count(last.trace, "DetachCurrentThread") = 0

C5_Witness ==
  /\ last.op = "Env" /\ last.depth = MaxDepth /\ last.status = "returned"
  /\ ~last.wasAttached
  /\ last.guards[1].attach /\ last.guards[MaxDepth].was
  /\ Attaches(last.trace) = 1

\* C6: when control comes back to the caller of an operation, by a return or
\* by the Throwable that check raised, every guard of the operation that
\* issued the native attach call has issued exactly one native detach call,
\* and every other guard none.
C6_ReleasedExactlyOnce ==
  CameBack
    => /\ \A g \in DOMAIN last.guards :
            last.guards[g].detached = IF last.guards[g].attach THEN 1 ELSE 0
       /\ Count(last.trace, "DetachCurrentThread") = Attaches(last.trace)

C6_Witness ==
  /\ last.status = "raised"
  /\ \E g \in DOMAIN last.guards : last.guards[g].attach /\ last.guards[g].detached = 1

\* C7: create() fails with the "creation failed" error whenever the native
\* creation call reports an error, whatever the error code, and reports
\* success only when the native call succeeded.
C7_EveryNativeErrorFails ==
  last.op = "create"
    => /\ last.result \notin {"none", JNI_OK} => last.error = FailedToCreate
       /\ last.status = "returned" => last.result = JNI_OK

C9_GetNeverAbsent ==
  /\ [](last.op = "get" => (last.ret = "instance" /\ (last.lazy => last.error = "none")))
  /\ [][(instance # NullJvm /\ last'.op = "get" /\ pc[last'.thread] = "idle")
          => (~last'.lazy /\ instance' = instance /\ creations' = creations
              /\ atexits' = atexits)]_vars
  /\ [][\A t \in Threads :
          (pc[t] = "notnull" /\ frame[t].error # "none") => pc'[t] = "notnull"]_vars

C9_Witness == last.op = "get" /\ last.lazy /\ last.ret = "instance" /\ atexits = 1

\* C10: a class, method, constructor or static field that the runtime does not
\* find ends the process, in both policy modes: the lookup neither returns
\* nor raises to its caller.
LookupOps == {"findClass", "findMethod", "findStaticMethod", "findConstructor", "findStaticField"}

C10_NotFoundAborts == (last.op \in LookupOps /\ ~last.found) => last.status = "fatal"

\* n array markers.
RECURSIVE Markers(_)
Markers(n) == IF n = 0 THEN "" ELSE "[" \o Markers(n - 1)

\* C11: for every descriptor t and every n >= 1, signature() of t with
\* arrayOf() applied n times is n array markers followed by signature() of t;
\* INT.arrayOf() gives "[I" and STRING.arrayOf().arrayOf() gives
\* "[[Ljava/lang/String;".
C11_ArrayDescriptorComposition ==
  (fragment # NoString /\ arrays >= 1) =>
    /\ fragment = Markers(arrays) \o signature(element)
    /\ (element = Class_INT /\ arrays = 1) => fragment = "[I"
    /\ (element = Class_STRING /\ arrays = 2) => fragment = "[[Ljava/lang/String;"

\* The fragments of the first k descriptors of types, in order.
RECURSIVE FragmentsOfFirst(_, _)
FragmentsOfFirst(types, k) ==
  IF k = 0 THEN "" ELSE FragmentsOfFirst(types, k - 1) \o signature(types[k])

\* C12: the signature string findMethod passes to the runtime is "(" followed
\* by the fragments of the signature's parameter descriptors in their stored
\* order, ")" and the return type's fragment, whatever the name and whether
\* the method is static; [INT, STRING] returning BOOLEAN gives
\* "(ILjava/lang/String;)Z" and no parameters returning VOID gives "()V".
C12_SignatureDeterminism ==
  lookup # NoLookup =>
    /\ lookup.string = "(" \o FragmentsOfFirst(lookup.argTypes, Len(lookup.argTypes))
                           \o ")" \o signature(lookup.returnType)
    /\ (lookup.argTypes = <<Class_INT, Class_STRING>> /\ lookup.returnType = Class_BOOLEAN)
         => lookup.string = "(ILjava/lang/String;)Z"
    /\ (lookup.argTypes = <<>> /\ lookup.returnType = Class_VOID) => lookup.string = "()V"

C12_Witness ==
  /\ lookup.entry = "findStaticMethod"
  /\ lookup.argTypes = <<Class_INT, Class_STRING>> /\ lookup.returnType = Class_BOOLEAN
  /\ lookup.string = "(ILjava/lang/String;)Z"

\* C13: deleteGlobalRef on a null reference is a no-op, on any thread and in
\* any state of the facade: it returns, issues no native delete call, creates
\* no runtime and leaves the calling thread's attachment as it was.
C13_DeleteNullIsNoOp ==
  (last.op = "deleteGlobalRef" /\ last.arg = NULL) =>
    /\ last.status = "returned"
    /\ Count(last.trace, "DeleteGlobalRef") = 0
    /\ ~last.lazy
    /\ last.attachedAfter = last.wasAttached

\* C14: over every sequence of create() and get() calls the exit finalizer is
\* registered exactly once if some create() succeeded and never otherwise,
\* and when the process exits the runtime's teardown entry point is invoked
\* exactly once, on the stored handle.
C14_DestroyedExactlyOnceAtExit ==
  /\ atexits = (IF successes >= 1 THEN 1 ELSE 0)
  /\ last.op = "exit" =>
       IF successes >= 1
       THEN Count(last.trace, "DestroyJavaVM") = 1 /\ JvmOf(instance) = JavaVMHandle
       ELSE Count(last.trace, "DestroyJavaVM") = 0

\* The operations of the facade that work through the singleton.
SingletonOps == {op.name : op \in Ops} \ {"Env"}

\* C15: after a successful creation no resolution, invocation, field-access,
\* string or global-reference operation changes the singleton (its runtime
\* handle and exceptions policy), and a constructor invocation or a static
\* method invocation leaves nothing behind for the call after it: when it
\* comes back the thread has no pending exception and is attached or not as
\* it was.
C15_SingletonNeverMutated ==
  /\ [][(created /\ last'.op \in SingletonOps)
          => (instance' = instance /\ last'.exceptions = instance.exceptions)]_vars
  /\ []((last.op \in {"invoke", "invokeStaticV"} /\ CameBack)
          => (~last.pendingAfter /\ last.attachedAfter = last.wasAttached))

C15_Witness ==
  /\ last.op = "invokeStaticV" /\ last.cat = "primitive" /\ last.status = "returned"
  /\ ~last.lazy /\ calls = MaxCalls /\ successes = 1
  /\ ~last.wasAttached /\ ~last.attachedAfter

\* C16: a MethodSignature produced by returns() holds exactly the descriptors
\* added by the parameter() calls made on the finder before it, in call
\* order; returns() does not modify the finder, and no later parameter() or
\* returns() call changes a signature produced earlier.
C16_SignatureHoldsParametersAdded ==
  /\ [](\A i \in DOMAIN produced :
          /\ produced[i].signature.parameters = produced[i].added
          /\ produced[i].signature.returnType = produced[i].returnType
          /\ produced[i].signature.clazz = finder.clazz
          /\ produced[i].signature.name = finder.name)
  /\ [][Len(produced') > Len(produced) => finder' = finder]_vars
  /\ [][\A i \in DOMAIN produced : i \in DOMAIN produced' /\ produced'[i] = produced[i]]_vars

C16_Witness ==
  /\ Len(produced) = MaxSignatures
  /\ produced[1].signature.parameters = <<Class_INT>>
  /\ produced[MaxSignatures].signature.parameters = <<Class_INT, Class_STRING>>
  /\ finder.parameters = <<Class_INT, Class_STRING>>

\* C17: a create() whose native creation call fails leaves the facade as it
\* was: no singleton is stored, created() is false, no exit finalizer is
\* registered, and a create() made while no runtime was ever created does not
\* fail with "already created".
C17_FailedCreateLeavesStateUnchanged ==
  /\ (last.op = "create" /\ last.result \notin {"none", JNI_OK})
       => (instance = NullJvm /\ ~created /\ atexits = 0)
  /\ (last.op = "create" /\ creations = 0) => last.error # AlreadyCreated

\* C18: every facade operation restores the calling thread's attachment: on a
\* detached thread only the outermost guard attaches and detaches, the thread
\* is not detached before the operation's last native call, and when the
\* operation returns or raises the thread is detached again; on an attached
\* thread it is still attached afterwards.
C18_AttachmentRestored ==
  (last.op \in SingletonOps /\ last.guards # <<>>) =>
    /\ ~last.wasAttached =>
         /\ last.guards[1].attach
         /\ \A g \in DOMAIN last.guards :
              g > 1 => (~last.guards[g].attach /\ last.guards[g].detached = 0)
    /\ \A i \in Positions(last.trace, "DetachCurrentThread") : i = Len(last.trace)
    /\ CameBack =>
         /\ last.attachedAfter = last.wasAttached
         /\ ~last.wasAttached => last.guards[1].detached = 1

\* The operation that just came back gives its caller a local reference.
ObjectResult ==
  /\ \/ last.op \in {"invoke", "string", "findClass"}
     \/ last.op \in {"invokeV", "invokeStaticV", "getStaticField"} /\ last.cat = "jobject"
  /\ last.status = "returned"
  /\ last.ret # NULL

\* C19: the reference an object-category operation returns is still valid
\* when the caller receives it: the thread is not detached between the native
\* call that produced the reference and the operation's return, also when the
\* thread was detached at entry.
C19_ReturnedReferenceValid ==
  ObjectResult => (Count(last.trace, "DetachCurrentThread") = 0 /\ last.attachedAfter)

\* The guards of the call just completed whose attach call succeeded.
Attached(guards) == {g \in DOMAIN guards : guards[g].attach /\ guards[g].env # NULL}

\* C20: the native detach calls issued by guards never exceed the native
\* attach calls that succeeded, a guard is owning only when its attach call
\* produced an environment handle, and no native call is issued through a
\* null environment handle.
C20_DetachOnlyAfterAttach ==
  last.guards # <<>> =>
    /\ Count(last.trace, "DetachCurrentThread") <= Cardinality(Attached(last.guards))
    /\ \A g \in DOMAIN last.guards : last.guards[g].detach => last.guards[g].env # NULL
    /\ last.status # "crash"
====
